---- MODULE Spec2Model ----
(***************************************************************************)
(* Expense-Calculator backend: process start-up, the session token         *)
(* (JWT) utilities, the authenticate middleware, the /auth routes and the  *)
(* /salary routes over the MySQL tables users and salary_reminders.        *)
(*                                                                         *)
(* A request is a record in a slot of req.  One action is the code a       *)
(* handler runs between two awaits: the database statement that the await  *)
(* waits for, followed by the synchronous code up to the next await.       *)
(* Requests are taken to be inside the rate limiters' budgets.             *)
(*                                                                         *)
(* The browser side: calculateDaysRemaining of the SalaryReminder          *)
(* component over the calendar and time zone of ECMAScript's Date, and     *)
(* AuthProvider with the timers of checkAuth and getCurrentUser.           *)
(***************************************************************************)
EXTENDS Integers, FiniteSets, Sequences, TLC

\* ------------------------------------------------------------------ bounds
MaxReq == 2
MaxNow == 7
\* the client's clock is read in the years FirstYear .. FirstYear + NumYears - 1
FirstYear == 2024
NumYears == 2
\* calls of checkAuth that can be in flight together
MaxChecks == 2

\* ------------------------------------------------------- program constants
\* JWT_EXPIRES_IN default '7d', counted in days
JWT_EXPIRES_IN == 7
\* the day-of-month range of the salary_reminders CHECK and of POST /salary
MinSalaryDate == 1
MaxSalaryDate == 31
\* 1000 * 60 * 60 * 24 milliseconds, counted in hours
HoursPerDay == 24
\* the client's timers, in tenths of a second: the abort of getCurrentUser,
\* the timeoutPromise of checkAuth, safetyTimeout and forceTimeout
AbortAfter == 8
CheckTimeout == 10
SafetyTimeout == 15
ForceTimeout == 20

Unset == "undefined"

Slots == 1..MaxReq
\* ids db.generateUUID can return: enough for every row and request in flight
IdPool == 1..(2 + MaxReq)
Secrets == {"k1"}
ForeignSecret == "k2"
NodeEnvs == {"production", "development", Unset}

VARIABLES env, proc, exitCode, warned, now, users, txns, reminders, req, jar,
          sessions, written, clock, view, auth, expenses, dbinit

vars == <<env, proc, exitCode, warned, now, users, txns, reminders, req, jar,
          sessions, written, clock, view, auth, expenses, dbinit>>

\* ------------------------------------------------------------------ tokens
\* A token string: undefined, the empty string, a string that is no JWT, or
\* a JWT signed with key, expiring at exp and carrying the payload fields.
MkTok(kind, key, exp, hasUserId, hasEmail, userId, email) ==
  [kind |-> kind, key |-> key, exp |-> exp, hasUserId |-> hasUserId,
   hasEmail |-> hasEmail, userId |-> userId, email |-> email]

NoTok == MkTok("undefined", "", 0, FALSE, FALSE, 0, "")
EmptyTok == MkTok("empty", "", 0, FALSE, FALSE, 0, "")
GarbageTok == MkTok("garbage", "", 0, FALSE, FALSE, 0, "")

\* JavaScript truthiness of a string | undefined
Truthy(t) == t.kind \notin {"undefined", "empty"}

\* the decoded payload, or null
NullDecoded == [ok |-> FALSE, userId |-> 0, email |-> ""]
Decoded(t) == [ok |-> TRUE, userId |-> t.userId, email |-> t.email]

\* a call result: the value returned, or an exception thrown
Ret(v) == [threw |-> FALSE, value |-> v]
Thrown(v) == [threw |-> TRUE, value |-> v]

\* --------------------------------------------------------- utils/auth.ts
getJWTSecret(e) ==
  IF e.JWT_SECRET = Unset THEN Thrown(Unset) ELSE Ret(e.JWT_SECRET)

\* jsonwebtoken's verify: throws on a malformed token, a signature made with
\* another key, or an expired token; returns the payload otherwise
jwtVerify(t, secret, n) ==
  IF t.kind # "jwt" \/ t.key # secret \/ n >= t.exp
  THEN Thrown(NullDecoded)
  ELSE Ret(Decoded(t))

generateToken(userId, email, e, n) ==
  LET s == getJWTSecret(e) IN
  IF s.threw THEN Thrown(NoTok)
  ELSE Ret(MkTok("jwt", s.value, n + JWT_EXPIRES_IN, TRUE, TRUE, userId, email))

verifyToken_NoCatch(t, e, n) ==
  LET s == getJWTSecret(e) IN
  IF s.threw THEN Thrown(NullDecoded)
  ELSE LET d == jwtVerify(t, s.value, n) IN
       IF d.threw THEN Thrown(NullDecoded)
       ELSE IF t.hasUserId /\ t.hasEmail THEN Ret(d.value) ELSE Ret(NullDecoded)

verifyToken(t, e, n) ==
  LET s == getJWTSecret(e) IN
  IF s.threw THEN Ret(NullDecoded)
  ELSE LET d == jwtVerify(t, s.value, n) IN
       IF d.threw THEN Ret(NullDecoded)
       ELSE IF t.hasUserId /\ t.hasEmail THEN Ret(d.value) ELSE Ret(NullDecoded)

\* --------------------------------------------------------- config/env.ts
validateEnv_NoneRequired(e) ==
  [threw |-> FALSE, warned |-> e.JWT_SECRET = Unset]

validateEnv(e) ==
  LET required == IF e.NODE_ENV = "production" THEN {"JWT_SECRET"} ELSE {}
      warns == e.NODE_ENV # "production" /\ e.JWT_SECRET = Unset
      missing == {k \in required : e[k] = Unset}
  IN [threw |-> missing # {}, warned |-> warns]

\* ---------------------------------------------------- request headers
\* req.headers.authorization: undefined, a string that does not start with
\* 'Bearer ', or 'Bearer ' followed by tok (which may be empty)
NoHeader == [kind |-> "absent", tok |-> NoTok]
OtherHeader == [kind |-> "other", tok |-> NoTok]
Bearer(t) == [kind |-> "bearer", tok |-> t]

\* ------------------------------------------------- middleware/auth.ts
MsgNoToken == "No token provided. Please login first."
MsgInvalidToken == "Invalid or expired token. Please login again."
MsgAuthFailed == "Authentication failed"

AuthOut(next, status, error, d, source, token, vCalled, vThrew) ==
  [next |-> next, status |-> status, error |-> error, userId |-> d.userId,
   userEmail |-> d.email, source |-> source, token |-> token,
   vCalled |-> vCalled, vThrew |-> vThrew]

authenticate(hdr, cookie, e, n) ==
  LET fromHeader == hdr.kind = "bearer"
      token == IF fromHeader THEN hdr.tok ELSE cookie
      source == IF fromHeader THEN "header"
                ELSE IF cookie.kind # "undefined" THEN "cookie" ELSE "none"
  IN IF ~Truthy(token)
     THEN AuthOut(FALSE, 401, MsgNoToken, NullDecoded, source, token, FALSE, FALSE)
     ELSE LET v == verifyToken(token, e, n) IN
          IF v.threw
          THEN AuthOut(FALSE, 401, MsgAuthFailed, NullDecoded, source, token, TRUE, TRUE)
          ELSE IF ~v.value.ok
          THEN AuthOut(FALSE, 401, MsgInvalidToken, NullDecoded, source, token, TRUE, FALSE)
          ELSE AuthOut(TRUE, 0, "", v.value, source, token, TRUE, FALSE)

\* GET /auth/me selects its token itself
meSelectToken(hdr, cookie) ==
  LET token == IF hdr.kind = "bearer" THEN hdr.tok ELSE NoTok
  IN IF ~Truthy(token) /\ Truthy(cookie)
     THEN [token |-> cookie, source |-> "cookie"]
     ELSE [token |-> token,
           source |-> IF hdr.kind = "bearer" THEN "header" ELSE "none"]

\* ------------------------------------------------------------- db.ts
\* what mysql2's connection.query resolves to: an array of rows for a
\* SELECT, a ResultSetHeader object for INSERT / UPDATE / DELETE
RowsResult(rows) == [isArray |-> TRUE, rows |-> rows, affectedRows |-> 0]
HeaderResult(n) == [isArray |-> FALSE, rows |-> {}, affectedRows |-> n]

\* rows / rowCount / affectedRows as the wrapper computes them;
\* `result?.affectedRows || ...` takes the fallback when affectedRows is 0
executeQuery(result) ==
  [rowCount |-> IF result.isArray THEN Cardinality(result.rows) ELSE 1,
   affectedRows |->
     IF ~result.isArray /\ result.affectedRows # 0
     THEN result.affectedRows
     ELSE IF result.isArray THEN Cardinality(result.rows) ELSE 1]

\* The pool's connections, counted on the request that uses them: acquired
\* and released count getConnection and release, releasedOpen records a
\* release made while the connection's transaction was open.
\* executeQuery takes a connection, runs the statement (which may throw) and
\* releases the connection in its finally; the connection is in autocommit.
query_ReleaseOnSuccess(q, threw) ==
  [q EXCEPT !.acquired = @ + 1, !.released = IF threw THEN @ ELSE @ + 1]

query(q, threw) ==
  [q EXCEPT !.acquired = @ + 1, !.released = @ + 1]

\* the connection of db.getClient() with its transaction: held by the
\* handler, open between START TRANSACTION and COMMIT or ROLLBACK, writes the
\* rows inserted and not yet committed
NoConnection == [held |-> FALSE, open |-> FALSE, writes |-> {}]
getClient(t) == [t EXCEPT !.held = TRUE]
StartTransaction(t) == [t EXCEPT !.open = TRUE, !.writes = {}]
Rollback(t) == [t EXCEPT !.open = FALSE, !.writes = {}]
Commit(t) == [t EXCEPT !.open = FALSE, !.writes = {}]
release(t) == [t EXCEPT !.held = FALSE]

\* the request after getClient, and after connection.release() on t
Acquired(q) == [q EXCEPT !.acquired = @ + 1]
Released(q, t) ==
  [q EXCEPT !.released = @ + 1, !.releasedOpen = @ \/ t.open]

\* db.generateUUID: an id that no row of the table and no request in flight
\* holds (the least of them, ids being interchangeable)
FreshIds(rows) ==
  {i \in IdPool :
     /\ \A x \in rows : x.id # i
     /\ \A s \in Slots : req[s].pc \in {"idle", "done"} \/ req[s].rowId # i}

generateUUID(rows) ==
  CHOOSE i \in FreshIds(rows) : \A j \in FreshIds(rows) : i <= j

\* salary_reminders: PRIMARY KEY (id), userId UNIQUE, CHECK on salaryDate,
\* FOREIGN KEY (userId) REFERENCES users(id)
salary_reminders_NoUnique(rows, row, usrs) ==
  /\ \A m \in rows : m.id # row.id
  /\ row.salaryDate >= MinSalaryDate /\ row.salaryDate <= MaxSalaryDate
  /\ \E u \in usrs : u.id = row.userId

salary_reminders_accepts(rows, row, usrs) ==
  /\ \A m \in rows : m.id # row.id
  /\ \A m \in rows : m.userId # row.userId
  /\ row.salaryDate >= MinSalaryDate /\ row.salaryDate <= MaxSalaryDate
  /\ \E u \in usrs : u.id = row.userId

\* users: PRIMARY KEY (id), email UNIQUE
users_accepts(rows, row) ==
  /\ \A u \in rows : u.id # row.id
  /\ \A u \in rows : u.email # row.email

\* the module's state: the flag `initialized`, each call of initialize (made
\* by db.ts at module load and by index.ts) with the await it is at, how
\* often testConnection and initializeSchema were entered, and whether the
\* database has the tables and the indexes
CallSites == {"db.ts", "index.ts"}

DbIdle ==
  [initialized |-> FALSE, calls |-> [c \in CallSites |-> "notCalled"],
   testRuns |-> 0, schemaRuns |-> 0, tables |-> FALSE, indexes |-> FALSE]

\* initialize() up to its first await
initialize(d, site) ==
  IF d.initialized THEN [d EXCEPT !.calls[site] = "returned"]
  ELSE [d EXCEPT !.calls[site] = "testConnection", !.testRuns = @ + 1]

\* ---------------------------------------------------------- requests
SalaryBody(type, n) == [type |-> type, n |-> n]

IdleReq ==
  [route |-> "", pc |-> "idle", hdrKind |-> "absent", hasCookie |-> FALSE,
   source |-> "none", token |-> NoTok, vCalled |-> FALSE, vThrew |-> FALSE,
   userId |-> 0, ranBody |-> FALSE, status |-> 0, msg |-> "",
   salaryDate |-> 0, email |-> "", password |-> "", rowId |-> 0,
   removed |-> 0, issued |-> NoTok, setCookie |-> "none",
   freeAtStart |-> FALSE, at |-> 0, expenseId |-> 0, amount |-> 0,
   hdr |-> NoHeader, cookie |-> NoTok,
   acquired |-> 0, released |-> 0, releasedOpen |-> FALSE]

\* the request as it leaves the middleware chain
Arrive(route, hdr, cookie, a) ==
  [IdleReq EXCEPT !.route = route, !.hdrKind = hdr.kind,
                  !.hasCookie = cookie.kind # "undefined",
                  !.source = a.source, !.token = a.token,
                  !.vCalled = a.vCalled, !.vThrew = a.vThrew,
                  !.userId = a.userId, !.at = now]

Respond(q, status, msg) == [q EXCEPT !.pc = "done", !.status = status, !.msg = msg]

\* a route without the authenticate middleware
NoAuth == AuthOut(TRUE, 0, "", NullDecoded, "none", NoTok, FALSE, FALSE)

CanStart(r) == proc = "listening" /\ req[r].pc \in {"idle", "done"}

\* a token the server has sent out, and whether the browser that holds it
\* has logged out since
Session(t) == [token |-> t, loggedOut |-> FALSE]

\* ------------------------------------------------------------ inputs
SecretSet == env.JWT_SECRET # Unset

SignedFor(key, exp, usrs) ==
  {MkTok("jwt", key, exp, TRUE, TRUE, u.id, u.email) : u \in usrs}

FirstUser == {u \in users : u.id = 1}

\* tokens signed with the server's secret: valid ones for every user, an
\* expired one, and two whose payload lacks a field
ServerTokens ==
  IF SecretSet
  THEN SignedFor(env.JWT_SECRET, now + 1, users)
       \cup SignedFor(env.JWT_SECRET, now, FirstUser)
       \cup {MkTok("jwt", env.JWT_SECRET, now + 1, FALSE, TRUE, 0, "a@x.io"),
             MkTok("jwt", env.JWT_SECRET, now + 1, TRUE, FALSE, 1, "")}
  ELSE {}

\* every kind of token a request can carry
TokenInputs ==
  {GarbageTok} \cup SignedFor(ForeignSecret, now + 1, FirstUser) \cup ServerTokens
  \cup {x.token : x \in sessions}

ValidTokens == IF SecretSet THEN SignedFor(env.JWT_SECRET, now + 1, users) ELSE {}

HeaderInputs ==
  {NoHeader, OtherHeader, Bearer(EmptyTok)} \cup {Bearer(t) : t \in TokenInputs}

CookieInputs == {NoTok} \cup TokenInputs

SalaryBodies ==
  {SalaryBody("undefined", 0), SalaryBody("string", 15)}
  \cup {SalaryBody("number", n) : n \in {-1, 0, 1, 31, 32}}

\* ------------------------------------- the client's clock (ECMAScript Date)
\* Days are numbered from 1 January of FirstYear (day 0); months are 0..11 as
\* in Date.  The calendar extends one year past the clock's range, to hold
\* the dates computed from it.
Years == FirstYear .. (FirstYear + NumYears)
Months == 0 .. 11

IsLeap(y) == (y % 4 = 0 /\ y % 100 # 0) \/ y % 400 = 0

DaysInYear(y) == IF IsLeap(y) THEN 366 ELSE 365

DaysInMonth(y, m) ==
  IF m = 1 THEN (IF IsLeap(y) THEN 29 ELSE 28)
  ELSE IF m \in {3, 5, 8, 10} THEN 30 ELSE 31

RECURSIVE DaysBeforeYear(_)
DaysBeforeYear(y) ==
  IF y <= FirstYear THEN 0 ELSE DaysBeforeYear(y - 1) + DaysInYear(y - 1)

RECURSIVE DaysBeforeMonth(_, _)
DaysBeforeMonth(y, m) ==
  IF m = 0 THEN 0 ELSE DaysBeforeMonth(y, m - 1) + DaysInMonth(y, m - 1)

\* new Date(year, month, date): a month past December carries into the year,
\* a date past the month's end (or 0) carries into the neighbouring month
MakeDay(year, month, date) ==
  LET y == year + (month \div 12)
      m == month % 12
  IN DaysBeforeYear(y) + DaysBeforeMonth(y, m) + date - 1

\* getFullYear / getMonth / getDate of the day numbered n
DateOf(n) ==
  LET ym == CHOOSE p \in Years \X Months :
              /\ MakeDay(p[1], p[2], 1) <= n
              /\ n < MakeDay(p[1], p[2] + 1, 1)
  IN [year |-> ym[1], month |-> ym[2], date |-> n - MakeDay(ym[1], ym[2], 1) + 1]

\* The host's time zone: the local dates on which the clock is put forward
\* (a day of 23 hours) and back (a day of 25 hours); none in UTC, the second
\* Sunday of March and the first Sunday of November in America/New_York.
UTC == [name |-> "UTC", forward |-> {}, back |-> {}]

NewYork ==
  [name |-> "America/New_York",
   forward |-> {<<2024, 2, 10>>, <<2025, 2, 9>>, <<2026, 2, 8>>, <<2027, 2, 14>>,
                <<2028, 2, 12>>},
   back |-> {<<2024, 10, 3>>, <<2025, 10, 2>>, <<2026, 10, 1>>, <<2027, 10, 7>>,
             <<2028, 10, 5>>}]

TimeZones == {UTC, NewYork}

DaysOf(dates) == {MakeDay(d[1], d[2], d[3]) : d \in {x \in dates : x[1] \in Years}}

DayLength(tz, n) ==
  IF n \in DaysOf(tz.forward) THEN HoursPerDay - 1
  ELSE IF n \in DaysOf(tz.back) THEN HoursPerDay + 1
  ELSE HoursPerDay

\* getTime() of local midnight of day n, in hours
MidnightTime(tz, n) ==
  HoursPerDay * n + Cardinality({d \in DaysOf(tz.back) : d < n})
                  - Cardinality({d \in DaysOf(tz.forward) : d < n})

\* getTime() of the instant hour hours after local midnight of day n
getTime(tz, n, hour) == MidnightTime(tz, n) + hour

\* Math.ceil(a / b) for b > 0
Ceil(a, b) == -((-a) \div b)

\* -------------------------------------- components/SalaryReminder.tsx
NullDays == [isNull |-> TRUE, days |-> 0, next |-> 0]

\* calculateDaysRemaining(salaryDay), with `new Date()` = hour hours into
\* day today of the host's zone tz; next is the day of nextSalaryDate
calculateDaysRemaining(salaryDay, tz, today, hour) ==
  IF salaryDay < 1 \/ salaryDay > 31 THEN NullDays
  ELSE LET cur == DateOf(today)
           thisMonth == MakeDay(cur.year, cur.month, salaryDay)
           moved == IF salaryDay < cur.date
                    THEN MakeDay(cur.year, cur.month + 1, salaryDay)
                    ELSE thisMonth
           nextSalaryDate == IF salaryDay = 31 /\ DateOf(moved).date # 31
                             THEN MakeDay(cur.year, cur.month + 1, 0)
                             ELSE moved
           diffTime == getTime(tz, nextSalaryDate, 0) - getTime(tz, today, hour)
           diffDays == Ceil(diffTime, HoursPerDay)
       IN IF diffDays >= 0
          THEN [isNull |-> FALSE, days |-> diffDays, next |-> nextSalaryDate]
          ELSE NullDays

\* the clock's readings: every day of the years in range, at midnight, at
\* noon and in the last hour of the day
ClockDays == 0 .. (DaysBeforeYear(FirstYear + NumYears) - 1)

ClockInputs ==
  UNION {{[tz |-> z, today |-> n, hour |-> h] :
            h \in {0, HoursPerDay \div 2, DayLength(z, n) - 1}} :
         z \in TimeZones, n \in ClockDays}

SalaryDayInputs == 0 .. 32

\* the component before it has rendered a reminder
ViewIdle == [pc |-> "idle", salaryDay |-> 0, daysRemaining |-> NullDays]


\* the component renders the reminder: daysRemaining =
\* calculateDaysRemaining(reminder.salaryDate)
Render ==
  /\ view.pc = "idle"
  /\ view' = [view EXCEPT !.pc = "rendered",
                          !.daysRemaining =
                            calculateDaysRemaining(view.salaryDay, clock.tz,
                                                   clock.today, clock.hour)]
  /\ UNCHANGED <<env, proc, exitCode, warned, now, users, txns, reminders, req,
                 jar, sessions, written, clock, auth, expenses, dbinit>>

\* ---------------------------------------- contexts/AuthContext.tsx, lib/api
\* Timers count down in tenths of a second; NoTimer is a timer that is not
\* set, was cleared or has run.
NoTimer == 0 - 1

Checks == 1 .. MaxChecks

\* getAuthHeaders: the Authorization header built from the stored token
getAuthHeaders(token) == IF Truthy(token) THEN Bearer(token) ELSE NoHeader

\* one call of checkAuth: the state of its getCurrentUser (fetching: fetch
\* pending; parsing: response received, response.json() pending), the abort
\* timer of getCurrentUser, the timer of timeoutPromise, the header and the
\* cookie its request went out with, and how it ended.  afterLogout: the call
\* began after a logout() had completed, with no login submitted since;
\* preLogin: a login completed while the call was in flight.
CheckIdle ==
  [pc |-> "idle", abort |-> NoTimer, timeout |-> NoTimer, status |-> 0,
   outcome |-> "", fromMount |-> FALSE, hdr |-> NoHeader, cookie |-> NoTok,
   afterLogout |-> FALSE, preLogin |-> FALSE]

\* the fetch of login() or logout() in flight, with what it carries
CallIdle == [pc |-> "idle", hdr |-> NoHeader, cookie |-> NoTok]

\* AuthProvider as first rendered: useState(null), useState(true),
\* useState(false); no effect has run
\* token is localStorage's authToken, which outlives the page
AuthIdle ==
  [phase |-> "rendered", isClient |-> FALSE, isLoading |-> TRUE, user |-> 0,
   safety |-> NoTimer, force |-> NoTimer, checks |-> [c \in Checks |-> CheckIdle],
   token |-> NoTok, call |-> CallIdle, loggedOut |-> FALSE]

\* checkAuth up to its await: setIsLoading(true), the timer of timeoutPromise,
\* and getCurrentUser up to its fetch with the abort timer
checkAuth_NoTimeout(a, c, fromMount) ==
  [a EXCEPT !.isLoading = TRUE,
            !.checks[c] = [pc |-> "fetching", abort |-> AbortAfter,
                           timeout |-> NoTimer, status |-> 0, outcome |-> "",
                           fromMount |-> fromMount,
                           hdr |-> getAuthHeaders(a.token), cookie |-> jar,
                           afterLogout |-> a.loggedOut, preLogin |-> FALSE]]

checkAuth(a, c, fromMount) ==
  [a EXCEPT !.isLoading = TRUE,
            !.checks[c] = [pc |-> "fetching", abort |-> AbortAfter,
                           timeout |-> CheckTimeout, status |-> 0,
                           outcome |-> "", fromMount |-> fromMount,
                           hdr |-> getAuthHeaders(a.token), cookie |-> jar,
                           afterLogout |-> a.loggedOut, preLogin |-> FALSE]]

\* the race of checkAuth settles: setUser(userData), or the catch with
\* removeAuthToken and setUser(null); finally setIsLoading(false).  The
\* effect's .finally then clears its two timers.
Settle(a, c, outcome, userData) ==
  [a EXCEPT !.user = IF outcome = "user" THEN userData ELSE 0,
            !.token = IF outcome = "user" THEN @ ELSE NoTok,
            !.isLoading = FALSE,
            !.safety = IF a.checks[c].fromMount THEN NoTimer ELSE @,
            !.force = IF a.checks[c].fromMount THEN NoTimer ELSE @,
            !.checks[c] = [CheckIdle EXCEPT !.pc = "done", !.outcome = outcome,
                                            !.afterLogout = a.checks[c].afterLogout,
                                            !.preLogin = a.checks[c].preLogin]]

\* the browser before the page is opened
ClientIdle ==
  /\ clock = [tz |-> UTC, today |-> 0, hour |-> 0]
  /\ view = ViewIdle
  /\ auth = AuthIdle

UnchangedServer ==
  UNCHANGED <<env, proc, exitCode, warned, now, users, txns, reminders, req,
              jar, sessions, written, expenses, dbinit>>

\* the effects of the first render: setIsClient(true), and the auth effect
\* with isClient false, which sets isLoading to false
MountEffects ==
  /\ auth.phase = "rendered"
  /\ auth' = [auth EXCEPT !.phase = "client", !.isClient = TRUE,
                          !.isLoading = FALSE]
  /\ UnchangedServer
  /\ UNCHANGED <<clock, view>>

\* the auth effect with isClient true: forceTimeout, safetyTimeout and
\* checkAuth()
MountCheck ==
  /\ auth.phase = "client"
  /\ auth' = checkAuth([auth EXCEPT !.phase = "mounted", !.force = ForceTimeout,
                                    !.safety = SafetyTimeout], 1, TRUE)
  /\ UnchangedServer
  /\ UNCHANGED <<clock, view>>

\* a page calls checkAuth() (RegisterPage after register)
CheckAuth(c) ==
  /\ auth.phase = "mounted"
  /\ auth.checks[c].pc \in {"idle", "done"}
  /\ auth' = checkAuth(auth, c, FALSE)
  /\ UnchangedServer
  /\ UNCHANGED <<clock, view>>

\* fetch resolves with a response: clearTimeout(timeoutId); 401 and 403 are
\* thrown at once, any other status goes to handleResponse, which awaits
\* response.json()
FetchResponds(c, status) ==
  /\ auth.checks[c].pc = "fetching"
  /\ auth' = IF status \in {401, 403}
             THEN Settle(auth, c, "unauthenticated", 0)
             ELSE [auth EXCEPT !.checks[c].pc = "parsing",
                               !.checks[c].abort = NoTimer,
                               !.checks[c].status = status]
  /\ UnchangedServer
  /\ UNCHANGED <<clock, view>>

\* fetch rejects (network error): the catch of getCurrentUser rethrows
FetchFails(c) ==
  /\ auth.checks[c].pc = "fetching"
  /\ auth' = Settle(auth, c, "error", 0)
  /\ UnchangedServer
  /\ UNCHANGED <<clock, view>>

\* response.json() resolves: handleResponse returns data.data for a 2xx
\* status and throws otherwise
BodyParsed(c, userData) ==
  /\ auth.checks[c].pc = "parsing"
  /\ auth' = IF auth.checks[c].status = 200
             THEN Settle(auth, c, "user", userData)
             ELSE Settle(auth, c, "error", 0)
  /\ UnchangedServer
  /\ UNCHANGED <<clock, view>>

\* the timers that are due
DueTimers ==
  {<<"abort", c>> : c \in {x \in Checks : auth.checks[x].abort = 0}}
  \cup {<<"timeout", c>> : c \in {x \in Checks : auth.checks[x].timeout = 0}}
  \cup (IF auth.safety = 0 THEN {<<"safety", 0>>} ELSE {})
  \cup (IF auth.force = 0 THEN {<<"force", 0>>} ELSE {})

\* a due timer runs its callback: controller.abort() makes fetch reject with
\* AbortError; timeoutPromise rejects and settles the race; safetyTimeout and
\* forceTimeout set isLoading to false (isMounted holds)
TimerFires(k) ==
  /\ k \in DueTimers
  /\ auth' = CASE k[1] = "abort" -> Settle(auth, k[2], "aborted", 0)
               [] k[1] = "timeout" -> Settle(auth, k[2], "timeout", 0)
               [] k[1] = "safety" -> [auth EXCEPT !.isLoading = FALSE,
                                                  !.safety = NoTimer]
               [] k[1] = "force" -> [auth EXCEPT !.isLoading = FALSE,
                                                 !.force = NoTimer]
  /\ UnchangedServer
  /\ UNCHANGED <<clock, view>>

Elapse(t) == IF t = NoTimer THEN NoTimer ELSE t - 1

\* a tenth of a second passes; no timer is overdue
TickClient ==
  /\ DueTimers = {}
  /\ \/ auth.safety # NoTimer \/ auth.force # NoTimer
     \/ \E c \in Checks : auth.checks[c].abort # NoTimer \/ auth.checks[c].timeout # NoTimer
  /\ auth' = [auth EXCEPT !.safety = Elapse(@), !.force = Elapse(@),
                          !.checks = [c \in Checks |->
                             [@[c] EXCEPT !.abort = Elapse(@),
                                          !.timeout = Elapse(@)]]]
  /\ UnchangedServer
  /\ UNCHANGED <<clock, view>>

\* what a step of the browser that sends or receives on the connection of
\* login() and logout() leaves alone
UnchangedByCall ==
  UNCHANGED <<env, proc, exitCode, warned, now, users, txns, reminders, jar,
              sessions, written, expenses, dbinit, clock, view>>

\* the connection login() and logout() use
CallSlot == 1

\* the login form is on the page: not authenticated and not loading
FormShown == auth.phase # "rendered" /\ auth.user = 0 /\ ~auth.isLoading

\* LoginPage.handleSubmit: login(formData) up to its fetch
ClientLogin ==
  /\ FormShown
  /\ auth.call.pc = "idle"
  /\ auth' = [auth EXCEPT !.call = [CallIdle EXCEPT !.pc = "login"],
                          !.loggedOut = FALSE]
  /\ req' = [req EXCEPT ![CallSlot] = IdleReq]
  /\ UnchangedByCall

\* the response to POST /auth/login has come: handleResponse throws on a
\* status that is not 2xx; otherwise setAuthToken(result.token) and
\* setUser(result.user)
LoginResolved ==
  /\ auth.call.pc = "login"
  /\ req[CallSlot].route = "POST /auth/login" /\ req[CallSlot].pc = "done"
  /\ auth' = IF req[CallSlot].status = 200
             THEN [auth EXCEPT !.call = CallIdle,
                               !.token = req[CallSlot].issued,
                               !.user = req[CallSlot].userId,
                               !.checks = [c \in Checks |->
                                  [@[c] EXCEPT !.preLogin =
                                     @ \/ auth.checks[c].pc \in {"fetching", "parsing"}]]]
             ELSE [auth EXCEPT !.call = CallIdle]
  /\ UnchangedServer
  /\ UNCHANGED <<clock, view>>

\* the home page's logout button: logout() up to its fetch, which is made
\* only when a token is stored; without one removeAuthToken and
\* setUser(null) follow at once
ClientLogout ==
  /\ auth.phase # "rendered" /\ auth.user # 0
  /\ auth.call.pc = "idle"
  /\ IF Truthy(auth.token)
     THEN /\ auth' = [auth EXCEPT !.call = [pc |-> "logout",
                                            hdr |-> getAuthHeaders(auth.token),
                                            cookie |-> jar]]
          /\ req' = [req EXCEPT ![CallSlot] = IdleReq]
     ELSE /\ auth' = [auth EXCEPT !.token = NoTok, !.user = 0, !.loggedOut = TRUE]
          /\ req' = req
  /\ UnchangedByCall

\* the fetch of logout() has settled, with the response to POST /auth/logout
\* or with a network error that the catch logs: finally removeAuthToken,
\* then setUser(null)
LogoutResolved(failed) ==
  /\ auth.call.pc = "logout"
  /\ failed \/ (req[CallSlot].route = "POST /auth/logout" /\ req[CallSlot].pc = "done")
  /\ auth' = [auth EXCEPT !.call = CallIdle, !.token = NoTok, !.user = 0,
                          !.loggedOut = TRUE]
  /\ UnchangedServer
  /\ UNCHANGED <<clock, view>>

\* the page is loaded again: AuthProvider starts from its initial state,
\* localStorage stays
PageLoad ==
  /\ auth.phase = "mounted"
  /\ auth.call.pc = "idle"
  /\ auth' = [AuthIdle EXCEPT !.token = auth.token, !.loggedOut = auth.loggedOut]
  /\ UnchangedServer
  /\ UNCHANGED <<clock, view>>

\* -------------------------------------------------------------- Init
\* an expense of each of the two users registered earlier
TwoExpenses ==
  {[id |-> 1, userId |-> 1, amount |-> 10], [id |-> 2, userId |-> 2, amount |-> 20]}

\* the process before index.ts has run, over a database holding usrs and rems
Deployed(nodeEnvs, usrs, rems) ==
  /\ env \in [NODE_ENV : nodeEnvs, JWT_SECRET : Secrets \cup {Unset}]
  /\ proc = "loading"
  /\ exitCode = 0
  /\ warned = FALSE
  /\ now = 0
  /\ users = usrs
  /\ txns = [r \in Slots |-> NoConnection]
  /\ reminders = rems
  /\ req = [r \in Slots |-> IdleReq]
  /\ jar = NoTok
  /\ sessions = {}
  /\ expenses = {x \in TwoExpenses : \E u \in usrs : u.id = x.userId}
  /\ dbinit = [DbIdle EXCEPT !.tables = usrs # {}, !.indexes = usrs # {}]
  /\ written = [i \in IdPool |-> IF \E m \in rems : m.userId = i
                                 THEN (CHOOSE m \in rems : m.userId = i).salaryDate
                                 ELSE 0]

\* two users registered earlier, the second of them with a salary reminder
TwoUsers ==
  {[id |-> 1, email |-> "a@x.io", password |-> <<"hash", "Pw1">>],
   [id |-> 2, email |-> "b@x.io", password |-> <<"hash", "Pw2">>]}

OneReminder == {[id |-> 1, userId |-> 2, salaryDate |-> 15]}

\* a fresh installation in any environment
Init == Deployed(NodeEnvs, {}, {}) /\ ClientIdle

\* a development deployment in use
InitRegistered == Deployed({"development"}, TwoUsers, OneReminder) /\ ClientIdle

\* a deployment in use, in any environment
InitInUse == Deployed(NodeEnvs, TwoUsers, OneReminder) /\ ClientIdle

\* ------------------------------------------------------------ index.ts
\* The imports are evaluated first, db.ts with its initialize() among them;
\* then validateEnv(), process.exit(1) when it throws, otherwise
\* db.initialize() and app.listen.  Both calls of initialize run up to their
\* first await.
Startup ==
  /\ proc = "loading"
  /\ LET v == validateEnv(env)
         loaded == initialize(dbinit, "db.ts")
     IN
     /\ warned' = v.warned
     /\ IF v.threw
        THEN proc' = "exited" /\ exitCode' = 1 /\ dbinit' = loaded
        ELSE /\ proc' = "listening" /\ exitCode' = 0
             /\ dbinit' = initialize(loaded, "index.ts")
  /\ UNCHANGED <<env, now, users, txns, reminders, req, jar, sessions, written>>
  /\ UNCHANGED <<clock, view, auth, expenses>>

\* what a step of initialize leaves alone
UnchangedByInitialize ==
  UNCHANGED <<env, warned, now, users, txns, reminders, req, jar, sessions,
              written, clock, view, auth, expenses>>

\* initialize's catch rethrows: the call made by db.ts logs the error, the
\* call made by index.ts logs it and calls process.exit(1)
InitializeFailed(site) ==
  /\ dbinit' = [dbinit EXCEPT !.calls[site] = "failed"]
  /\ IF site = "index.ts"
     THEN proc' = "exited" /\ exitCode' = 1
     ELSE UNCHANGED <<proc, exitCode>>

\* testConnection ends: `SELECT 1` answered, or an error thrown; after it
\* initialize calls initializeSchema
TestConnection(site, ok) ==
  /\ proc = "listening"
  /\ dbinit.calls[site] = "testConnection"
  /\ IF ok
     THEN /\ dbinit' = [dbinit EXCEPT !.calls[site] = "createTables",
                                      !.schemaRuns = @ + 1]
          /\ UNCHANGED <<proc, exitCode>>
     ELSE InitializeFailed(site)
  /\ UnchangedByInitialize

\* initializeSchema, the CREATE TABLE IF NOT EXISTS statements
CreateTables(site, ok) ==
  /\ proc = "listening"
  /\ dbinit.calls[site] = "createTables"
  /\ IF ok
     THEN /\ dbinit' = [dbinit EXCEPT !.calls[site] = "createIndexes",
                                      !.tables = TRUE]
          /\ UNCHANGED <<proc, exitCode>>
     ELSE InitializeFailed(site)
  /\ UnchangedByInitialize

\* initializeSchema, the CREATE INDEX statements, ER_DUP_KEYNAME ignored;
\* then initialize sets initialized
CreateIndexes(site, ok) ==
  /\ proc = "listening"
  /\ dbinit.calls[site] = "createIndexes"
  /\ IF ok
     THEN /\ dbinit' = [dbinit EXCEPT !.calls[site] = "done", !.indexes = TRUE,
                                      !.initialized = TRUE]
          /\ UNCHANGED <<proc, exitCode>>
     ELSE InitializeFailed(site)
  /\ UnchangedByInitialize

\* the lifetime of a token passes
Tick ==
  /\ proc = "listening"
  /\ now + JWT_EXPIRES_IN <= MaxNow
  /\ now' = now + JWT_EXPIRES_IN
  /\ UNCHANGED <<env, proc, exitCode, warned, users, txns, reminders, req, jar, sessions, written>>
  /\ UNCHANGED <<clock, view, auth, expenses, dbinit>>

\* ------------------------------------------------- routes/salary.ts
MsgNoUserId == "User ID not found in request"
MsgSalaryRequired == "Salary date is required and must be a number (day of month, 1-31)"
MsgSalaryRange == "Salary date must be between 1 and 31"
MsgSalaryNone == "No salary reminder set"
MsgSalaryUpdated == "Salary reminder updated successfully"
MsgSalaryCreated == "Salary reminder created successfully"
MsgSalaryDeleted == "Salary reminder deleted successfully"
MsgSalaryNotFound == "Salary reminder not found (already deleted or never existed)"
\* error.message of the driver's ER_DUP_ENTRY and of reading a field of rows[0]
\* when rows is empty
MsgDupEntry == "Duplicate entry"
MsgTypeError == "Cannot read properties of undefined"

RemindersOf(u) == {m \in reminders : m.userId = u}

\* POST /salary: the checks on req.body.salaryDate; "" when it passes
SalaryDateError_NoLowerBound(body) ==
  IF body.type # "number" \/ body.n = 0 THEN MsgSalaryRequired
  ELSE IF body.n > MaxSalaryDate THEN MsgSalaryRange
  ELSE ""

SalaryDateError(body) ==
  IF body.type # "number" \/ body.n = 0 THEN MsgSalaryRequired
  ELSE IF body.n < MinSalaryDate \/ body.n > MaxSalaryDate THEN MsgSalaryRange
  ELSE ""

\* what no handler writes: the process, the clocks and the browser's pages
Unchanged_process ==
  UNCHANGED <<env, proc, exitCode, warned, now, clock, view, auth, dbinit>>

\* and the expenses table, which PUT /expenses/:id alone writes
Unchanged_boot == Unchanged_process /\ UNCHANGED expenses

\* GET /salary, the whole handler
SalaryGet(r, hdr, cookie) ==
  /\ CanStart(r)
  /\ LET a == authenticate(hdr, cookie, env, now)
         q == Arrive("GET /salary", hdr, cookie, a)
         b == [q EXCEPT !.ranBody = TRUE]
         res == executeQuery(RowsResult(RemindersOf(a.userId)))
         d == query(b, FALSE)
     IN req' = [req EXCEPT ![r] =
          IF ~a.next THEN Respond(q, a.status, a.error)
          ELSE IF a.userId = 0 THEN Respond(b, 401, MsgNoUserId)
          ELSE IF res.rowCount = 0 THEN Respond(d, 200, MsgSalaryNone)
          ELSE Respond(d, 200, "")]
  /\ Unchanged_boot
  /\ UNCHANGED <<users, txns, reminders, jar, sessions, written>>

\* POST /salary up to the UPDATE or INSERT: authenticate, the body checks and
\* the SELECT that looks for the user's reminder
SalaryPost(r, hdr, cookie, body) ==
  /\ CanStart(r)
  /\ LET a == authenticate(hdr, cookie, env, now)
         q == Arrive("POST /salary", hdr, cookie, a)
         b == [q EXCEPT !.ranBody = TRUE]
         v == [b EXCEPT !.salaryDate = body.n]
         existingResult == executeQuery(RowsResult(RemindersOf(a.userId)))
     IN req' = [req EXCEPT ![r] =
          IF ~a.next THEN Respond(q, a.status, a.error)
          ELSE IF a.userId = 0 THEN Respond(b, 401, MsgNoUserId)
          ELSE IF SalaryDateError(body) = MsgSalaryRequired
          THEN Respond(b, 400, MsgSalaryRequired)
          ELSE IF SalaryDateError(body) # "" THEN Respond(v, 400, SalaryDateError(body))
          ELSE IF existingResult.rowCount > 0
          THEN [query(v, FALSE) EXCEPT !.pc = "update"]
          ELSE [query(v, FALSE) EXCEPT !.pc = "insert"]]
  /\ Unchanged_boot
  /\ UNCHANGED <<users, txns, reminders, jar, sessions, written>>

\* UPDATE salary_reminders SET salaryDate = ? WHERE userId = ?
SalaryPostUpdate(r) ==
  /\ req[r].route = "POST /salary"
  /\ req[r].pc = "update"
  /\ reminders' = {IF m.userId = req[r].userId
                   THEN [m EXCEPT !.salaryDate = req[r].salaryDate] ELSE m
                   : m \in reminders}
  /\ written' = IF RemindersOf(req[r].userId) # {}
                THEN [written EXCEPT ![req[r].userId] = req[r].salaryDate]
                ELSE written
  /\ req' = [req EXCEPT ![r] = [query(req[r], FALSE) EXCEPT !.pc = "fetchUpdated"]]
  /\ Unchanged_boot
  /\ UNCHANGED <<users, txns, jar, sessions>>

\* INSERT INTO salary_reminders; a constraint violation rejects the statement
\* and the handler's catch answers 500 with the error's message
SalaryPostInsert(r) ==
  /\ req[r].route = "POST /salary"
  /\ req[r].pc = "insert"
  /\ LET row == [id |-> generateUUID(reminders), userId |-> req[r].userId,
                 salaryDate |-> req[r].salaryDate]
     IN IF salary_reminders_accepts(reminders, row, users)
        THEN /\ reminders' = reminders \cup {row}
             /\ written' = [written EXCEPT ![row.userId] = row.salaryDate]
             /\ req' = [req EXCEPT ![r] =
                  [query(req[r], FALSE) EXCEPT !.pc = "fetchCreated", !.rowId = row.id]]
        ELSE /\ req' = [req EXCEPT ![r] = Respond(query(req[r], TRUE), 500, MsgDupEntry)]
             /\ UNCHANGED <<reminders, written>>
  /\ Unchanged_boot
  /\ UNCHANGED <<users, txns, jar, sessions>>

\* the SELECT after the write and the response built from rows[0]
SalaryPostFetch(r) ==
  /\ req[r].route = "POST /salary"
  /\ req[r].pc \in {"fetchUpdated", "fetchCreated"}
  /\ LET rows == IF req[r].pc = "fetchUpdated" THEN RemindersOf(req[r].userId)
                 ELSE {m \in reminders : m.id = req[r].rowId}
         ok == [query(req[r], FALSE) EXCEPT !.rowId = 0]
     IN req' = [req EXCEPT ![r] =
          IF rows = {} THEN Respond(ok, 500, MsgTypeError)
          ELSE IF req[r].pc = "fetchUpdated" THEN Respond(ok, 200, MsgSalaryUpdated)
          ELSE Respond(ok, 201, MsgSalaryCreated)]
  /\ Unchanged_boot
  /\ UNCHANGED <<users, txns, reminders, jar, sessions, written>>

\* DELETE /salary, the whole handler
SalaryDelete(r, hdr, cookie) ==
  /\ CanStart(r)
  /\ LET a == authenticate(hdr, cookie, env, now)
         q == Arrive("DELETE /salary", hdr, cookie, a)
         b == [q EXCEPT !.ranBody = TRUE]
         gone == RemindersOf(a.userId)
         result == executeQuery(HeaderResult(Cardinality(gone)))
         deleted == result.affectedRows > 0
     IN IF ~a.next \/ a.userId = 0
        THEN /\ req' = [req EXCEPT ![r] =
                  IF ~a.next THEN Respond(q, a.status, a.error)
                  ELSE Respond(b, 401, MsgNoUserId)]
             /\ UNCHANGED <<reminders, written>>
        ELSE /\ reminders' = reminders \ gone
             /\ written' = [written EXCEPT ![a.userId] = 0]
             /\ req' = [req EXCEPT ![r] =
                  Respond([query(b, FALSE) EXCEPT !.removed = Cardinality(gone)], 200,
                          IF deleted THEN MsgSalaryDeleted ELSE MsgSalaryNotFound)]
  /\ Unchanged_boot
  /\ UNCHANGED <<users, txns, jar, sessions>>

\* the session cookie of any user's client, or none
CookieOfUsers == {NoTok} \cup ValidTokens

\* the /salary routes, called by the first user's client, which sends the
\* session cookie when it has one
SalaryCookies == {NoTok} \cup {t \in ValidTokens : t.userId = 1}

NextSalary ==
  \/ Startup
  \/ \E r \in Slots, c \in SalaryCookies : SalaryGet(r, NoHeader, c)
  \/ \E r \in Slots, c \in SalaryCookies, b \in SalaryBodies :
       SalaryPost(r, NoHeader, c, b)
  \/ \E r \in Slots : SalaryPostUpdate(r)
  \/ \E r \in Slots : SalaryPostInsert(r)
  \/ \E r \in Slots : SalaryPostFetch(r)
  \/ \E r \in Slots, c \in SalaryCookies : SalaryDelete(r, NoHeader, c)

SpecSalary == InitRegistered /\ [][NextSalary]_vars

\* the POST /salary requests alone
NextSalarySet ==
  \/ Startup
  \/ \E r \in Slots, c \in SalaryCookies, b \in SalaryBodies :
       SalaryPost(r, NoHeader, c, b)
  \/ \E r \in Slots : SalaryPostUpdate(r)
  \/ \E r \in Slots : SalaryPostInsert(r)
  \/ \E r \in Slots : SalaryPostFetch(r)

SpecSalarySet == InitRegistered /\ [][NextSalarySet]_vars

\* --------------------------------------------------- utils/sanitize.ts
\* sanitizeEmail: trims, tests the shape, lower-cases; '' when not an email
sanitizeEmail(email) ==
  CASE email = "A@x.io" -> "a@x.io"
    [] email \in {"a@x.io", "b@x.io", "c@x.io"} -> email
    [] OTHER -> ""

\* bcrypt: hashPassword and comparePassword
hashPassword(password) == <<"hash", password>>
comparePassword(password, hash) == hash = <<"hash", password>>

\* --------------------------------------------------- routes/auth.ts
MsgValidation == "validation failed"
MsgRegisterRequired == "Name, email, and password are required"
MsgUserExists == "User with this email already exists"
MsgRegistered == "User registered successfully"
MsgSecretRequired == "JWT_SECRET environment variable is required. Please set it in your .env file."
MsgBadLogin == "Invalid email or password"
MsgLoginRequired == "Email and password are required"
MsgLoggedIn == "Login successful"
MsgLoggedOut == "Logout successful"
MsgMeNoToken == "No token provided"
MsgMeInvalid == "Invalid token"
MsgMeNoUser == "User not found"
MsgMeFailed == "Failed to get user info"

\* req.body of register and login; valid is the verdict of the
\* express-validator chain
AuthBody(valid, email, password) ==
  [valid |-> valid, email |-> email, password |-> password]

UsersByEmail(email) == {u \in users : u.email = email}

\* POST /auth/register up to the INSERT: db.getClient, the validation result,
\* sanitising, START TRANSACTION and the SELECT for the email; an email found
\* is rolled back and answered 409, and the connection released
Register(r, body) ==
  /\ CanStart(r)
  /\ LET q == [Acquired(Arrive("POST /auth/register", NoHeader, NoTok, NoAuth))
                 EXCEPT !.ranBody = TRUE]
         email == sanitizeEmail(body.email)
         v == [q EXCEPT !.email = email, !.password = body.password,
                        !.freeAtStart = UsersByEmail(email) = {}]
         connection == getClient(txns[r])
         begun == StartTransaction(connection)
         \* ROLLBACK before the ConflictError, and again in the inner catch
         undone == Rollback(Rollback(begun))
     IN IF ~body.valid
        THEN req' = [req EXCEPT ![r] = Respond(Released(q, connection), 400, MsgValidation)]
             /\ txns' = [txns EXCEPT ![r] = release(connection)]
        ELSE IF email = "" \/ body.password = ""
        THEN req' = [req EXCEPT ![r] =
                  Respond(Released(q, connection), 400, MsgRegisterRequired)]
             /\ txns' = [txns EXCEPT ![r] = release(connection)]
        ELSE IF UsersByEmail(email) # {}
        THEN req' = [req EXCEPT ![r] = Respond(Released(v, undone), 409, MsgUserExists)]
             /\ txns' = [txns EXCEPT ![r] = release(undone)]
        ELSE req' = [req EXCEPT ![r] = [v EXCEPT !.pc = "insert"]]
             /\ txns' = [txns EXCEPT ![r] = begun]
  /\ Unchanged_boot
  /\ UNCHANGED <<users, reminders, jar, sessions, written>>

\* hashPassword and INSERT INTO users inside the transaction.  The statement
\* waits while another open transaction holds an uncommitted row with the
\* same email; a committed one makes it fail (ER_DUP_ENTRY), the transaction
\* is rolled back and the outer catch answers 500 with the error's message
RegisterInsert(r) ==
  /\ req[r].route = "POST /auth/register"
  /\ req[r].pc = "insert"
  /\ \A o \in Slots \ {r} : \A w \in txns[o].writes : w.email # req[r].email
  /\ LET row == [id |-> generateUUID(users), email |-> req[r].email,
                 password |-> hashPassword(req[r].password)]
     IN IF users_accepts(users, row)
        THEN /\ txns' = [txns EXCEPT ![r].writes = {row}]
             /\ req' = [req EXCEPT ![r].pc = "commit", ![r].rowId = row.id]
        ELSE /\ txns' = [txns EXCEPT ![r] = release(Rollback(txns[r]))]
             /\ req' = [req EXCEPT ![r] =
                  Respond(Released(req[r], Rollback(txns[r])), 500, MsgDupEntry)]
  /\ Unchanged_boot
  /\ UNCHANGED <<users, reminders, jar, sessions, written>>

\* COMMIT, then generateToken, the cookie and the 201 response; when
\* generateToken throws, the ROLLBACK of the inner catch finds nothing to undo
\* and the outer catch answers 500 with the error's message
RegisterCommit(r) ==
  /\ req[r].route = "POST /auth/register"
  /\ req[r].pc = "commit"
  /\ users' = users \cup txns[r].writes
  /\ LET token == generateToken(req[r].rowId, req[r].email, env, now)
         committed == Commit(txns[r])
         atFinally == IF token.threw THEN Rollback(committed) ELSE committed
         q == Released([req[r] EXCEPT !.userId = req[r].rowId, !.rowId = 0],
                       atFinally)
     IN IF token.threw
        THEN /\ req' = [req EXCEPT ![r] = Respond(q, 500, MsgSecretRequired)]
             /\ txns' = [txns EXCEPT ![r] = release(atFinally)]
             /\ jar' = jar
             /\ sessions' = sessions
        ELSE /\ req' = [req EXCEPT ![r] =
                  Respond([q EXCEPT !.issued = token.value, !.setCookie = "set"],
                          201, MsgRegistered)]
             /\ txns' = [txns EXCEPT ![r] = release(atFinally)]
             /\ jar' = token.value
             /\ sessions' = sessions \cup {Session(token.value)}
  /\ Unchanged_boot
  /\ UNCHANGED <<reminders, written>>

\* the UnauthorizedError thrown when no row has the email, and the one thrown
\* when comparePassword fails
LoginNoUser_NotFound == [status |-> 404, msg |-> MsgMeNoUser]

LoginNoUser == [status |-> 401, msg |-> MsgBadLogin]

LoginBadPassword == [status |-> 401, msg |-> MsgBadLogin]

\* POST /auth/login, the whole handler
Login(r, body) ==
  /\ CanStart(r)
  /\ LET email == sanitizeEmail(body.email)
         q == [Arrive("POST /auth/login", NoHeader, NoTok, NoAuth)
                 EXCEPT !.ranBody = TRUE, !.email = email,
                        !.password = body.password]
         rows == UsersByEmail(email)
         user == CHOOSE u \in rows : TRUE
         token == generateToken(user.id, user.email, env, now)
         d == query(q, FALSE)
     IN IF ~body.valid \/ email = "" \/ body.password = "" \/ rows = {}
           \/ ~comparePassword(body.password, user.password) \/ token.threw
        THEN /\ req' = [req EXCEPT ![r] =
                  IF ~body.valid THEN Respond(q, 400, MsgValidation)
                  ELSE IF email = "" \/ body.password = ""
                  THEN Respond(q, 400, MsgLoginRequired)
                  ELSE IF rows = {}
                  THEN Respond(d, LoginNoUser.status, LoginNoUser.msg)
                  ELSE IF ~comparePassword(body.password, user.password)
                  THEN Respond(d, LoginBadPassword.status, LoginBadPassword.msg)
                  ELSE Respond(d, 500, MsgSecretRequired)]
             /\ jar' = jar
             /\ sessions' = sessions
        ELSE /\ req' = [req EXCEPT ![r] =
                  Respond([d EXCEPT !.userId = user.id, !.issued = token.value,
                                    !.setCookie = "set"], 200, MsgLoggedIn)]
             /\ jar' = token.value
             /\ sessions' = sessions \cup {Session(token.value)}
  /\ Unchanged_boot
  /\ UNCHANGED <<users, txns, reminders, written>>

\* the browser's cookie jar is emptied
LoggedOut == {IF x.token = jar THEN [x EXCEPT !.loggedOut = TRUE] ELSE x : x \in sessions}

Logout_RequiresToken(r, hdr, cookie) ==
  /\ CanStart(r)
  /\ LET a == authenticate(hdr, cookie, env, now)
         q == Arrive("POST /auth/logout", hdr, cookie, a)
     IN IF ~a.next
        THEN /\ req' = [req EXCEPT ![r] = Respond(q, a.status, a.error)]
             /\ UNCHANGED <<jar, sessions>>
        ELSE /\ req' = [req EXCEPT ![r] =
                  Respond([q EXCEPT !.ranBody = TRUE, !.setCookie = "cleared"],
                          200, MsgLoggedOut)]
             /\ jar' = NoTok
             /\ sessions' = LoggedOut
  /\ Unchanged_boot
  /\ UNCHANGED <<users, txns, reminders, written>>

\* POST /auth/logout, the whole handler: no middleware, clears the cookie
Logout(r, hdr, cookie) ==
  /\ CanStart(r)
  /\ req' = [req EXCEPT ![r] =
       Respond([Arrive("POST /auth/logout", hdr, cookie, NoAuth)
                  EXCEPT !.ranBody = TRUE, !.setCookie = "cleared"],
               200, MsgLoggedOut)]
  /\ jar' = NoTok
  /\ sessions' = LoggedOut
  /\ Unchanged_boot
  /\ UNCHANGED <<users, txns, reminders, written>>

\* GET /auth/me: its own token lookup, verifyToken, and the SELECT of the
\* user; ranBody marks the code past the token checks
me(hdr, cookie, e, n, usrs) ==
  LET sel == meSelectToken(hdr, cookie)
      called == Truthy(sel.token)
      v == verifyToken(sel.token, e, n)
      out(status, msg, ran, d) ==
        [status |-> status, msg |-> msg, ranBody |-> ran,
         auth |-> AuthOut(TRUE, 0, "", d, sel.source, sel.token, called,
                          called /\ v.threw)]
  IN IF ~called THEN out(401, MsgMeNoToken, FALSE, NullDecoded)
     ELSE IF v.threw THEN out(500, MsgMeFailed, FALSE, NullDecoded)
     ELSE IF ~v.value.ok THEN out(401, MsgMeInvalid, FALSE, NullDecoded)
     ELSE IF {u \in usrs : u.id = v.value.userId} = {}
     THEN out(404, MsgMeNoUser, TRUE, v.value)
     ELSE out(200, "", TRUE, v.value)

\* GET /auth/me, the whole handler; hdr and cookie keep what the request
\* carried
Me(r, hdr, cookie) ==
  /\ CanStart(r)
  /\ LET o == me(hdr, cookie, env, now, users)
         q == Arrive("GET /auth/me", hdr, cookie, o.auth)
         d == IF o.ranBody THEN query(q, FALSE) ELSE q
     IN req' = [req EXCEPT ![r] =
          Respond([d EXCEPT !.ranBody = o.ranBody, !.hdr = hdr, !.cookie = cookie],
                  o.status, o.msg)]
  /\ Unchanged_boot
  /\ UNCHANGED <<users, txns, reminders, jar, sessions, written>>

\* ------------------------------- routes/expenses.ts, routes/categories.ts
\* the routes mounted behind authenticate whose handlers work on tables that
\* are not part of this model: ranBody records that the chain after
\* authenticate was entered, the handler's own response is left open
GuardedRoutes ==
  {"POST /expenses", "GET /expenses", "GET /expenses/summary",
   "GET /categories", "POST /categories", "DELETE /categories/:categoryName"}

Guarded(r, route, hdr, cookie) ==
  /\ CanStart(r)
  /\ LET a == authenticate(hdr, cookie, env, now)
         q == Arrive(route, hdr, cookie, a)
     IN req' = [req EXCEPT ![r] =
          IF ~a.next THEN Respond(q, a.status, a.error)
          ELSE Respond([q EXCEPT !.ranBody = TRUE], 0, "handler")]
  /\ Unchanged_boot
  /\ UNCHANGED <<users, txns, reminders, jar, sessions, written>>

\* ------------------------------------------------ PUT /expenses/:id
MsgExpenseInvalid == "Invalid input data. Please check all fields."
MsgExpenseNotFound == "Expense not found"
MsgExpenseUpdated == "Expense updated successfully"

\* req.body of PUT /expenses/:id; valid is the verdict of
\* validateCreateExpense
ExpenseBody(valid, amount) == [valid |-> valid, amount |-> amount]

\* SELECT id, userId FROM expenses WHERE id = ? AND userId = ?
ExistingExpense_ById(rows, id, userId) == {x \in rows : x.id = id}

ExistingExpense(rows, id, userId) == {x \in rows : x.id = id /\ x.userId = userId}

\* PUT /expenses/:id up to the UPDATE: authenticate, validateCreateExpense
\* and the SELECT that looks for the caller's expense
ExpensePut(r, hdr, cookie, id, body) ==
  /\ CanStart(r)
  /\ LET a == authenticate(hdr, cookie, env, now)
         q == [Arrive("PUT /expenses/:id", hdr, cookie, a) EXCEPT !.expenseId = id]
         b == [q EXCEPT !.ranBody = TRUE, !.amount = body.amount]
         existingResult == executeQuery(RowsResult(ExistingExpense(expenses, id, a.userId)))
     IN req' = [req EXCEPT ![r] =
          IF ~a.next THEN Respond(q, a.status, a.error)
          ELSE IF ~body.valid THEN Respond(q, 400, MsgExpenseInvalid)
          ELSE IF a.userId = 0 THEN Respond(b, 401, MsgNoUserId)
          ELSE IF existingResult.rowCount = 0
          THEN Respond(query(b, FALSE), 404, MsgExpenseNotFound)
          ELSE [query(b, FALSE) EXCEPT !.pc = "update"]]
  /\ Unchanged_boot
  /\ UNCHANGED <<users, txns, reminders, jar, sessions, written>>

\* UPDATE expenses SET amount = ?, ... WHERE id = ? AND userId = ?
ExpensePutUpdate(r) ==
  /\ req[r].route = "PUT /expenses/:id"
  /\ req[r].pc = "update"
  /\ expenses' = {IF x.id = req[r].expenseId /\ x.userId = req[r].userId
                  THEN [x EXCEPT !.amount = req[r].amount] ELSE x
                  : x \in expenses}
  /\ req' = [req EXCEPT ![r] = [query(req[r], FALSE) EXCEPT !.pc = "fetch"]]
  /\ Unchanged_process
  /\ UNCHANGED <<users, txns, reminders, jar, sessions, written>>

\* SELECT ... FROM expenses WHERE id = ? and the response built from rows[0]
ExpensePutFetch(r) ==
  /\ req[r].route = "PUT /expenses/:id"
  /\ req[r].pc = "fetch"
  /\ req' = [req EXCEPT ![r] =
       IF {x \in expenses : x.id = req[r].expenseId} = {}
       THEN Respond(query(req[r], FALSE), 500, MsgTypeError)
       ELSE Respond(query(req[r], FALSE), 200, MsgExpenseUpdated)]
  /\ Unchanged_boot
  /\ UNCHANGED <<users, txns, reminders, jar, sessions, written>>

\* --------------------------------------------------------- routes/ai.ts
MsgExpensesInvalid == "Expenses array is required"
MsgInsights == "insights generated"

\* POST /ai/insights: validateExpensesArray, then the handler; valid is the
\* verdict of validateExpensesArray on req.body.expenses
AiInsights(r, hdr, cookie, valid) ==
  /\ CanStart(r)
  /\ LET q == Arrive("POST /ai/insights", hdr, cookie, NoAuth)
     IN req' = [req EXCEPT ![r] =
          IF ~valid THEN Respond(q, 400, MsgExpensesInvalid)
          ELSE Respond([q EXCEPT !.ranBody = TRUE], 200, MsgInsights)]
  /\ Unchanged_boot
  /\ UNCHANGED <<users, txns, reminders, jar, sessions, written>>

\* ----------------------------------------------------- specifications
EmailInputs == {"a@x.io", "A@x.io", "b@x.io"}

RegisterBodies ==
  {AuthBody(FALSE, "a@x.io", "Pw1")}
  \cup {AuthBody(TRUE, e, "Pw1") : e \in EmailInputs}

LoginBodies ==
  {AuthBody(FALSE, "a@x.io", "Pw1"), AuthBody(TRUE, "c@x.io", "Pw1")}
  \cup {AuthBody(TRUE, "A@x.io", p) : p \in {"Pw1", "Pw2"}}

\* concurrent registrations on a fresh installation
NextRegister ==
  \/ Startup
  \/ \E r \in Slots, b \in RegisterBodies : Register(r, b)
  \/ \E r \in Slots : RegisterInsert(r)
  \/ \E r \in Slots : RegisterCommit(r)

SpecRegister == Init /\ [][NextRegister]_vars

\* one client's session: every way of carrying a token, over time
NextSession ==
  \/ Startup
  \/ Tick
  \/ \E b \in LoginBodies : Login(1, b)
  \/ \E h \in HeaderInputs, c \in CookieInputs : Logout(1, h, c)
  \/ \E h \in HeaderInputs, c \in CookieInputs : Me(1, h, c)
  \/ \E h \in HeaderInputs, c \in CookieInputs : SalaryGet(1, h, c)

SpecSession == InitInUse /\ [][NextSession]_vars

\* every route, called with no token, a bad token or a good one
RouteHeaders == {NoHeader, Bearer(GarbageTok)}
RouteCookies == {NoTok} \cup {t \in ValidTokens : t.userId = 1}
RouteSalaryBodies == {SalaryBody("number", 1), SalaryBody("number", 32)}
RouteExpenseBodies == {ExpenseBody(TRUE, 30), ExpenseBody(FALSE, 0)}
RouteAuthBodies == {AuthBody(TRUE, "a@x.io", "Pw1"), AuthBody(TRUE, "c@x.io", "Pw1")}

NextRoutes ==
  \/ Startup
  \/ \E b \in RouteAuthBodies : Register(1, b)
  \/ RegisterInsert(1)
  \/ RegisterCommit(1)
  \/ \E b \in RouteAuthBodies : Login(1, b)
  \/ \E h \in RouteHeaders, c \in RouteCookies : Logout(1, h, c)
  \/ \E h \in RouteHeaders, c \in RouteCookies : Me(1, h, c)
  \/ \E h \in RouteHeaders, c \in RouteCookies : SalaryGet(1, h, c)
  \/ \E h \in RouteHeaders, c \in RouteCookies, b \in RouteSalaryBodies :
       SalaryPost(1, h, c, b)
  \/ SalaryPostUpdate(1)
  \/ SalaryPostInsert(1)
  \/ SalaryPostFetch(1)
  \/ \E h \in RouteHeaders, c \in RouteCookies : SalaryDelete(1, h, c)
  \/ \E t \in GuardedRoutes, h \in RouteHeaders, c \in RouteCookies :
       Guarded(1, t, h, c)
  \/ \E h \in RouteHeaders, c \in RouteCookies, b \in RouteExpenseBodies :
       ExpensePut(1, h, c, 1, b)
  \/ ExpensePutUpdate(1)
  \/ ExpensePutFetch(1)
  \/ \E h \in RouteHeaders, c \in RouteCookies, v \in BOOLEAN :
       AiInsights(1, h, c, v)

SpecRoutes == InitInUse /\ [][NextRoutes]_vars

\* concurrent logins against the registered users
NextLogin ==
  \/ Startup
  \/ \E r \in Slots, b \in LoginBodies : Login(r, b)

SpecLogin == InitInUse /\ [][NextLogin]_vars

\* concurrent PUT /expenses/:id by the two users, on each other's expenses,
\* their own and one that does not exist
ExpenseIds == {1, 2, 3}
ExpenseBodies == {ExpenseBody(TRUE, 30), ExpenseBody(FALSE, 0)}

NextExpenses ==
  \/ Startup
  \/ \E r \in Slots, c \in CookieOfUsers, i \in ExpenseIds, b \in ExpenseBodies :
       ExpensePut(r, NoHeader, c, i, b)
  \/ \E r \in Slots : ExpensePutUpdate(r)
  \/ \E r \in Slots : ExpensePutFetch(r)

SpecExpenses == InitRegistered /\ [][NextExpenses]_vars

\* concurrent requests that use the pool: registrations with a free email, a
\* taken one and an invalid body, logins, and POST /salary of the first user
PoolRegisterBodies ==
  {AuthBody(FALSE, "c@x.io", "Pw1"), AuthBody(TRUE, "c@x.io", "Pw1"),
   AuthBody(TRUE, "a@x.io", "Pw1")}
PoolLoginBodies == {AuthBody(TRUE, "a@x.io", "Pw1"), AuthBody(TRUE, "a@x.io", "Pw2")}
PoolSalaryBodies == {SalaryBody("number", 1)}

NextPool ==
  \/ Startup
  \/ \E r \in Slots, b \in PoolRegisterBodies : Register(r, b)
  \/ \E r \in Slots : RegisterInsert(r)
  \/ \E r \in Slots : RegisterCommit(r)
  \/ \E r \in Slots, b \in PoolLoginBodies : Login(r, b)
  \/ \E r \in Slots, c \in SalaryCookies, b \in PoolSalaryBodies :
       SalaryPost(r, NoHeader, c, b)
  \/ \E r \in Slots : SalaryPostUpdate(r)
  \/ \E r \in Slots : SalaryPostInsert(r)
  \/ \E r \in Slots : SalaryPostFetch(r)

SpecPool == InitRegistered /\ [][NextPool]_vars

\* the process starts on a fresh database or on one in use, and the
\* statements of initialize succeed or fail
InitBoot == Init \/ InitInUse

NextBoot ==
  \/ Startup
  \/ \E c \in CallSites, ok \in BOOLEAN : TestConnection(c, ok)
  \/ \E c \in CallSites, ok \in BOOLEAN : CreateTables(c, ok)
  \/ \E c \in CallSites, ok \in BOOLEAN : CreateIndexes(c, ok)

SpecBoot == InitBoot /\ [][NextBoot]_vars

\* the page is opened and AuthProvider mounts; pages call checkAuth.  React
\* runs the effects and the event loop runs due timers; a response to
\* GET /auth/me may never come.
InitAuthCheck == Deployed({"development"}, TwoUsers, OneReminder) /\ SecretSet /\ ClientIdle

NextAuthCheck ==
  \/ MountEffects
  \/ MountCheck
  \/ \E c \in Checks : CheckAuth(c)
  \/ \E c \in Checks, status \in {200, 401, 500} : FetchResponds(c, status)
  \/ \E c \in Checks : FetchFails(c)
  \/ \E c \in Checks : BodyParsed(c, 1)
  \/ \E k \in DueTimers : TimerFires(k)
  \/ TickClient

SpecAuthCheck ==
  /\ InitAuthCheck /\ [][NextAuthCheck]_vars
  /\ WF_vars(MountEffects) /\ WF_vars(MountCheck)
  /\ WF_vars(\E k \in DueTimers : TimerFires(k))
  /\ WF_vars(TickClient)

\* one browser against the server: the pages' login and logout, the mount
\* check answered by GET /auth/me for what the request carried, and reloads
ClientLoginBodies == {AuthBody(TRUE, "a@x.io", p) : p \in {"Pw1", "Pw2"}}

\* what GET /auth/me answers to the request of check c
MeAnswer(c) == me(auth.checks[c].hdr, auth.checks[c].cookie, env, now, users)

NextClient ==
  \/ Startup
  \/ MountEffects
  \/ MountCheck
  \/ PageLoad
  \/ ClientLogin
  \/ \E b \in ClientLoginBodies :
       auth.call.pc = "login" /\ req[CallSlot].pc = "idle" /\ Login(CallSlot, b)
  \/ LoginResolved
  \/ ClientLogout
  \/ /\ auth.call.pc = "logout" /\ req[CallSlot].pc = "idle"
     /\ Logout(CallSlot, auth.call.hdr, auth.call.cookie)
  \/ \E failed \in BOOLEAN : LogoutResolved(failed)
  \/ \E c \in Checks : proc = "listening" /\ FetchResponds(c, MeAnswer(c).status)
  \/ \E c \in Checks : FetchFails(c)
  \/ \E c \in Checks : BodyParsed(c, MeAnswer(c).auth.userId)
  \/ \E k \in DueTimers : TimerFires(k)
  \/ TickClient

SpecClient == InitAuthCheck /\ [][NextClient]_vars

\* the reminder card rendered once, at any reading of the client's clock and
\* for any salaryDay
InitReminder ==
  /\ Deployed({"development"}, TwoUsers, OneReminder)
  /\ SecretSet
  /\ clock \in ClockInputs
  /\ auth = AuthIdle
  /\ view \in {[ViewIdle EXCEPT !.salaryDay = d] : d \in SalaryDayInputs}

NextReminder == Render

SpecReminder == InitReminder /\ [][NextReminder]_vars

\* ------------------------------------------------------------ properties
Done(r, route) == req[r].route = route /\ req[r].pc = "done"

\* C1: a DELETE /salary by an authenticated user answers 200 with the
\* 'not found' message when the user had no reminder, and with the 'deleted
\* successfully' message only when a row was removed.
C1_DeleteReportsWhatHappened ==
  \A r \in Slots :
    (Done(r, "DELETE /salary") /\ req[r].ranBody /\ req[r].userId # 0) =>
      /\ req[r].status = 200
      /\ (req[r].removed = 0 => req[r].msg = MsgSalaryNotFound)
      /\ (req[r].msg = MsgSalaryDeleted => req[r].removed > 0)

\* C2: of two concurrent registrations with the same email (JWT_SECRET
\* configured, the email free when each began) exactly one answers 201, the
\* other 409, and exactly one user row holds the email afterwards.
C2_ConcurrentRegister ==
  \A r1, r2 \in Slots :
    (/\ r1 # r2 /\ SecretSet
     /\ Done(r1, "POST /auth/register") /\ Done(r2, "POST /auth/register")
     /\ req[r1].freeAtStart /\ req[r2].freeAtStart
     /\ req[r1].email = req[r2].email) =>
      /\ {req[r1].status, req[r2].status} = {201, 409}
      /\ Cardinality(UsersByEmail(req[r1].email)) = 1

\* C3: when two POST /salary requests by the same user with valid values
\* have both completed, both answered with success and the stored salaryDate
\* is the value written last.
C3_ConcurrentSet ==
  \A r1, r2 \in Slots :
    (/\ r1 # r2
     /\ Done(r1, "POST /salary") /\ Done(r2, "POST /salary")
     /\ req[r1].salaryDate \in MinSalaryDate .. MaxSalaryDate
     /\ req[r2].salaryDate \in MinSalaryDate .. MaxSalaryDate
     /\ req[r1].userId = req[r2].userId) =>
      /\ req[r1].status \in {200, 201} /\ req[r2].status \in {200, 201}
      /\ \E m \in RemindersOf(req[r1].userId) :
           m.salaryDate = written[req[r1].userId]

\* C4: every user has zero or exactly one stored salary reminder, in every
\* reachable state of any interleaving of GET, POST and DELETE /salary.
C4_AtMostOneReminder ==
  \A u \in users : Cardinality(RemindersOf(u.id)) <= 1

\* the insert race: a user's reminder is stored and a concurrent POST of the
\* same user had its INSERT refused
C4_Witness ==
  \E r \in Slots :
    /\ Done(r, "POST /salary") /\ req[r].status = 500 /\ req[r].msg = MsgDupEntry
    /\ Cardinality(RemindersOf(req[r].userId)) = 1

\* C5: a request that carries an Authorization: Bearer header is decided by
\* the header's token, in authenticate and in GET /auth/me alike; the cookie
\* is never the token used.
C5_HeaderWins ==
  \A r \in Slots :
    (req[r].route \in {"GET /salary", "GET /auth/me"} /\ req[r].hdrKind = "bearer")
      => req[r].source = "header"

\* C6: a request whose token is present but invalid gets the response
\* (status and body) that the same route gives to a request with no token.
C6_AbsentSameAsInvalid ==
  \A r \in Slots :
    (req[r].pc = "done" /\ req[r].vCalled /\ req[r].userId = 0 /\ req[r].at = now) =>
      /\ req[r].route = "GET /salary" =>
           LET none == authenticate(NoHeader, NoTok, env, now)
           IN <<req[r].status, req[r].msg>> = <<none.status, none.error>>
      /\ req[r].route = "GET /auth/me" =>
           LET none == me(NoHeader, NoTok, env, now, users)
           IN <<req[r].status, req[r].msg>> = <<none.status, none.msg>>

\* a token that must not verify at time n: malformed, signed with another
\* key, expired, or lacking userId or email
InvalidAt(t, n) ==
  \/ t.kind # "jwt"
  \/ t.key # env.JWT_SECRET
  \/ n >= t.exp
  \/ ~t.hasUserId
  \/ ~t.hasEmail

\* C7: verifyToken never throws, and returns null for every malformed,
\* mis-signed or expired token, every token lacking userId or email, and
\* every token when JWT_SECRET is unset.
C7_VerifyNeverThrows ==
  \A r \in Slots :
    req[r].vCalled =>
      /\ ~req[r].vThrew
      /\ (InvalidAt(req[r].token, req[r].at) \/ ~SecretSet) => req[r].userId = 0

\* verifyToken was given a well-formed JWT while JWT_SECRET is unset
C7_Witness ==
  \E r \in Slots :
    /\ req[r].pc = "done" /\ req[r].vCalled /\ ~req[r].vThrew
    /\ ~SecretSet /\ req[r].token.kind = "jwt" /\ req[r].userId = 0

\* C8: outside production with JWT_SECRET unset, start-up succeeds with a
\* warning and a registration that reaches generateToken answers 201 with a
\* token that verifyToken accepts.
C8_DevDefaultSecret ==
  (env.NODE_ENV # "production" /\ ~SecretSet) =>
    /\ proc # "loading" => (proc = "listening" /\ warned)
    /\ \A r \in Slots :
         (Done(r, "POST /auth/register") /\ req[r].freeAtStart
          /\ req[r].msg # MsgDupEntry) =>
           /\ req[r].status = 201
           /\ verifyToken(req[r].issued, env, req[r].at).value.ok

\* C9: in production with JWT_SECRET unset the process exits with code 1
\* before it listens, and no request is ever served.
C9_ProductionFailsFast ==
  (env.NODE_ENV = "production" /\ ~SecretSet) =>
    /\ proc \in {"loading", "exited"}
    /\ proc = "exited" => exitCode = 1
    /\ \A r \in Slots : req[r].pc = "idle"

\* the production process without JWT_SECRET has exited
C9_Witness ==
  env.NODE_ENV = "production" /\ ~SecretSet /\ proc = "exited" /\ exitCode = 1

\* C10: on every route but POST /auth/register and POST /auth/login a
\* request without a valid token is answered 401 and the handler body does
\* not run.
C10_AllOtherRoutesGuarded ==
  \A r \in Slots :
    (/\ req[r].pc = "done"
     /\ req[r].route \notin {"POST /auth/register", "POST /auth/login"}
     /\ req[r].userId = 0) =>
      req[r].status = 401 /\ ~req[r].ranBody

\* ------------------------------------------------- the reminder's date
Rendered == view.pc = "rendered"

Today == DateOf(clock.today)

\* the first date on or after day n whose day-of-month is d: in n's month
\* when that month has a day d not before n, else in the first later month
\* that has a day d
NextOccurrence(n, d) ==
  LET cur == DateOf(n)
      has(k) == d <= DaysInMonth(cur.year + ((cur.month + k) \div 12),
                                 (cur.month + k) % 12)
                /\ (k = 0 => d >= cur.date)
      k == CHOOSE i \in 0 .. 2 : has(i) /\ \A j \in 0 .. (i - 1) : ~has(j)
  IN MakeDay(cur.year, cur.month + k, d)

\* C11: for salaryDay in 1..30 nextSalaryDate is the next date on or after
\* today whose day-of-month is salaryDay, its day-of-month is salaryDay, and
\* the result is the number of days from today to it.
C11_NextOccurrence ==
  (Rendered /\ view.salaryDay \in 1 .. 30) =>
    /\ ~view.daysRemaining.isNull
    /\ DateOf(view.daysRemaining.next).date = view.salaryDay
    /\ view.daysRemaining.next = NextOccurrence(clock.today, view.salaryDay)
    /\ view.daysRemaining.days = view.daysRemaining.next - clock.today

\* C12: for salaryDay 31 in a month of fewer than 31 days nextSalaryDate is
\* the last day of the current month and the result is that day minus
\* today's day-of-month; in a month of 31 days it is the 31st of the month.
C12_ThirtyFirst ==
  (Rendered /\ view.salaryDay = 31) =>
    LET last == DaysInMonth(Today.year, Today.month) IN
    /\ ~view.daysRemaining.isNull
    /\ view.daysRemaining.next = MakeDay(Today.year, Today.month, last)
    /\ view.daysRemaining.days = last - Today.date

\* C13: when salaryDay is today's day-of-month plus one (at most 31) the
\* result is 1, on the last day of a month too.
C13_DueTomorrow ==
  (Rendered /\ view.salaryDay = Today.date + 1 /\ view.salaryDay <= 31) =>
    (~view.daysRemaining.isNull /\ view.daysRemaining.days = 1)

\* C14: when salaryDay is today's day-of-month the result is 0.
C14_DueToday ==
  (Rendered /\ view.salaryDay = Today.date) =>
    (~view.daysRemaining.isNull /\ view.daysRemaining.days = 0)

\* C15: the result is null exactly when salaryDay is outside 1..31, and a
\* number that is not negative otherwise.
C15_NullOnlyOutOfRange ==
  Rendered =>
    /\ view.daysRemaining.isNull <=> view.salaryDay \notin 1 .. 31
    /\ view.daysRemaining.days >= 0

\* C16: a POST /salary whose salaryDate is 0 or a number outside 1..31 is
\* answered 400, the step that answers 400 leaves salary_reminders as it was,
\* and every stored salaryDate is in 1..31.
C16_OutOfRangeRejected ==
  /\ [](\A r \in Slots :
          (/\ Done(r, "POST /salary") /\ req[r].ranBody /\ req[r].userId # 0
           /\ req[r].salaryDate \notin MinSalaryDate .. MaxSalaryDate) =>
            req[r].status = 400)
  /\ [](\A m \in reminders : m.salaryDate \in MinSalaryDate .. MaxSalaryDate)
  /\ [][\A r \in Slots :
          (/\ req'[r] # req[r] /\ req'[r].route = "POST /salary"
           /\ req'[r].status = 400) => reminders' = reminders]_vars

\* a user who has a reminder stored was refused a salaryDate outside 1..31
C16_Witness ==
  \E r \in Slots :
    /\ Done(r, "POST /salary") /\ req[r].status = 400
    /\ req[r].salaryDate \notin MinSalaryDate .. MaxSalaryDate
    /\ req[r].salaryDate # 0
    /\ RemindersOf(req[r].userId) # {}

\* what the client sees of a response
Response(r) ==
  [status |-> req[r].status, msg |-> req[r].msg, token |-> req[r].issued,
   setCookie |-> req[r].setCookie]

\* a login that passed validation and named an email no user has
UnknownEmail(r) ==
  /\ Done(r, "POST /auth/login") /\ req[r].email # "" /\ req[r].status # 400
  /\ UsersByEmail(req[r].email) = {}

\* a login that passed validation and named a user's email with a password
\* that is not the user's
WrongPassword(r) ==
  /\ Done(r, "POST /auth/login") /\ req[r].email # "" /\ req[r].status # 400
  /\ UsersByEmail(req[r].email) # {}
  /\ \A u \in UsersByEmail(req[r].email) : u.password # hashPassword(req[r].password)

\* C17: a login with an unknown email and a login with a known email and a
\* wrong password get the same response, 401 'Invalid email or password'.
C17_LoginGeneric ==
  \A r1, r2 \in Slots :
    (UnknownEmail(r1) /\ WrongPassword(r2)) =>
      /\ Response(r1) = Response(r2)
      /\ req[r1].status = 401 /\ req[r1].msg = MsgBadLogin

\* both failed logins have been answered
C17_Witness ==
  \E r1, r2 \in Slots :
    /\ UnknownEmail(r1) /\ WrongPassword(r2)
    /\ req[r1].status = 401 /\ req[r2].status = 401

\* error.message of the faults the model raises: the driver's constraint
\* violation, the TypeError on a missing row, the missing signing key
InternalMessages == {MsgDupEntry, MsgTypeError, MsgSecretRequired}

\* C18: in production no 500 response carries the message of the internal
\* error that caused it.
C18_NoLeakInProduction ==
  env.NODE_ENV = "production" =>
    \A r \in Slots :
      (req[r].pc = "done" /\ req[r].status = 500) => req[r].msg \notin InternalMessages

\* a request that carried a token issued to a browser that has logged out
\* since, before the token's expiry and as the only credential
AfterLogout(r) ==
  /\ req[r].pc = "done" /\ req[r].vCalled
  /\ \E x \in sessions : x.loggedOut /\ x.token = req[r].token
  /\ req[r].at < req[r].token.exp

TimeoutPending ==
  \E c \in Checks :
    /\ auth.checks[c].pc \in {"fetching", "parsing"}
    /\ auth.checks[c].timeout \in 0 .. CheckTimeout

\* C20: whenever isLoading is true it becomes false again, and while it is
\* true after the mount a checkAuth timer that will end it within
\* CheckTimeout is set, whatever GET /auth/me does.
C20_LoadingEnds ==
  /\ [](auth.isLoading => (auth.phase = "rendered" \/ TimeoutPending))
  /\ (auth.isLoading ~> ~auth.isLoading)

\* a checkAuth whose response body never came was ended by its timeout
C20_Witness ==
  \E c \in Checks : auth.checks[c].outcome = "timeout" /\ ~auth.isLoading

\* a PUT /expenses/:id that reached the ownership SELECT with an id that is
\* another user's expense / that is no expense
PutByNonOwner(r) ==
  /\ Done(r, "PUT /expenses/:id") /\ req[r].ranBody /\ req[r].userId # 0
  /\ \E x \in expenses : x.id = req[r].expenseId /\ x.userId # req[r].userId

PutOfMissing(r) ==
  /\ Done(r, "PUT /expenses/:id") /\ req[r].ranBody /\ req[r].userId # 0
  /\ \A x \in expenses : x.id # req[r].expenseId

\* C21: a PUT /expenses/:id by an authenticated user who does not own the
\* expense answers 404 'Expense not found', the same response as for an id
\* that does not exist, and a step of a request changes no expense of
\* another user.
C21_NonOwnerNotFound ==
  /\ [](\A r1, r2 \in Slots :
          /\ PutByNonOwner(r1) =>
               req[r1].status = 404 /\ req[r1].msg = MsgExpenseNotFound
          /\ (PutByNonOwner(r1) /\ PutOfMissing(r2)) => Response(r1) = Response(r2))
  /\ [][\A r \in Slots :
          req'[r] # req[r] =>
            \A x \in expenses : x.userId # req[r].userId => x \in expenses']_vars

\* a non-owner and a caller naming no expense were both answered, after the
\* owner had updated the expense
C21_Witness ==
  \E r1, r2 \in Slots :
    /\ PutByNonOwner(r1) /\ PutOfMissing(r2)
    /\ \E x \in expenses : x.id = req[r1].expenseId /\ x.amount = 30

\* C22: for a fixed salaryDay and date the result is the same at every time
\* of the day: the one computed at midnight, which is the number of whole
\* days from today to nextSalaryDate.
C22_SameAllDay ==
  Rendered =>
    /\ view.daysRemaining =
         calculateDaysRemaining(view.salaryDay, clock.tz, clock.today, 0)
    /\ ~view.daysRemaining.isNull =>
         view.daysRemaining.days = view.daysRemaining.next - clock.today

\* C23: a POST /auth/register that is answered with a status other than 201
\* has left no user row of its own in the table, so its email can be
\* registered again.
C23_FailedRegisterLeavesNoRow ==
  \A r \in Slots :
    (Done(r, "POST /auth/register") /\ req[r].status # 201) =>
      \A u \in users : u.id # req[r].userId

\* C24: an auth check that begins after the client's logout() has completed,
\* no login having been submitted since, reports unauthenticated, whatever
\* the browser holds (also a cookie without a stored token).
C24_LogoutEndsSession ==
  \A c \in Checks :
    (auth.checks[c].pc = "done" /\ auth.checks[c].afterLogout) =>
      auth.checks[c].outcome # "user"

\* C25: an auth check that was in flight when login() completed changes
\* neither the user nor the stored token when it settles.
C25_LoginStays ==
  [][\A c \in Checks :
       (/\ auth.checks[c].preLogin
        /\ auth.checks[c].pc \in {"fetching", "parsing"}
        /\ auth'.checks[c].pc = "done") =>
         (auth'.user = auth.user /\ auth'.token = auth.token)]_vars

\* C26: for every Authorization header (absent, not Bearer, 'Bearer ' with
\* an empty token, 'Bearer <token>') and every cookie, GET /auth/me selects
\* the token, from the source, that authenticate selects for the same
\* request.
C26_SameSelection ==
  \A r \in Slots :
    Done(r, "GET /auth/me") =>
      LET a == authenticate(req[r].hdr, req[r].cookie, env, req[r].at)
      IN req[r].token = a.token /\ req[r].source = a.source

\* C27: testConnection and initializeSchema are each entered at most once
\* in the life of the process, whoever calls initialize and in whatever
\* order the calls proceed.
C27_InitializeOnce ==
  dbinit.testRuns <= 1 /\ dbinit.schemaRuns <= 1

\* C28: a request never has released more connections than it acquired and
\* holds at most one; when it is answered every connection it acquired has
\* been released; the connection of POST /auth/register is held exactly until
\* the response, and no connection is released while its transaction is open.
C28_ConnectionsReleased ==
  \A r \in Slots :
    /\ req[r].released <= req[r].acquired
    /\ req[r].acquired <= req[r].released + 1
    /\ ~req[r].releasedOpen
    /\ req[r].pc \in {"idle", "done"} =>
         (req[r].released = req[r].acquired /\ ~txns[r].held /\ ~txns[r].open)
    /\ txns[r].held <=>
         (req[r].route = "POST /auth/register" /\ req[r].pc \in {"insert", "commit"})
    /\ txns[r].held => req[r].acquired = req[r].released + 1
    /\ txns[r].open => txns[r].held

\* a registration whose INSERT was refused has been rolled back and answered
\* 500, the registration that won has been answered 201, and both
\* connections are back in the pool
C28_Witness ==
  \E r1, r2 \in Slots :
    /\ Done(r1, "POST /auth/register") /\ req[r1].status = 500
    /\ req[r1].msg = MsgDupEntry
    /\ req[r1].acquired = 1 /\ req[r1].released = 1 /\ ~txns[r1].held
    /\ Done(r2, "POST /auth/register") /\ req[r2].status = 201
    /\ req[r2].released = 1

====
